---------------------------- MODULE Spec2Model ----------------------------
(***************************************************************************)
(* A model of the Go file splitter (src/main.go).  One run of splitGoFile  *)
(* parses a source file into its declaration list, partitions the function *)
(* declarations into contiguous groups, names each group's output file,    *)
(* filters the import list per group and writes one file per group.  The   *)
(* destination directory is part of the state, so that a second run sees   *)
(* the files of the first.                                                 *)
(***************************************************************************)
EXTENDS Integers, Sequences, FiniteSets, TLC

(***************************************************************************)
(* Bounds of the model.                                                    *)
(***************************************************************************)
MaxFuncs == 7
MaxFiles == 5
MaxTypes == 1
MaxRuns == 2
(* the largest function and file count tried in the crowded directory *)
MaxCrowded == 4

(* for i := 1; i <= 999; i++  and the last-resort numeral of the namer *)
MaxNum == 999

(***************************************************************************)
(* String helpers of the Go standard library, computed on TLC strings.     *)
(***************************************************************************)
UpperChars ==
  << "A", "B", "C", "D", "E", "F", "G", "H", "I", "J", "K", "L", "M",
     "N", "O", "P", "Q", "R", "S", "T", "U", "V", "W", "X", "Y", "Z" >>

LowerChars ==
  << "a", "b", "c", "d", "e", "f", "g", "h", "i", "j", "k", "l", "m",
     "n", "o", "p", "q", "r", "s", "t", "u", "v", "w", "x", "y", "z" >>

LowerChar(c) ==
  IF \E k \in 1..Len(UpperChars) : UpperChars[k] = c
    THEN LowerChars[CHOOSE k \in 1..Len(UpperChars) : UpperChars[k] = c]
    ELSE c

RECURSIVE ToLower(_)
(* strings.ToLower *)
ToLower(s) ==
  IF Len(s) = 0 THEN ""
  ELSE LowerChar(SubSeq(s, 1, 1)) \o ToLower(SubSeq(s, 2, Len(s)))

(* strings.Contains *)
Contains(s, sub) ==
  \E k \in 1..(Len(s) - Len(sub) + 1) : SubSeq(s, k, k + Len(sub) - 1) = sub

(* strings.HasSuffix *)
HasSuffix(s, suf) ==
  Len(s) >= Len(suf) /\ SubSeq(s, Len(s) - Len(suf) + 1, Len(s)) = suf

(* strings.TrimSuffix *)
TrimSuffix(s, suf) ==
  IF HasSuffix(s, suf) THEN SubSeq(s, 1, Len(s) - Len(suf)) ELSE s

RECURSIVE TrimLeft(_, _)
TrimLeft(s, c) ==
  IF Len(s) > 0 /\ SubSeq(s, 1, 1) = c THEN TrimLeft(SubSeq(s, 2, Len(s)), c) ELSE s

RECURSIVE TrimRight(_, _)
TrimRight(s, c) ==
  IF Len(s) > 0 /\ SubSeq(s, Len(s), Len(s)) = c
    THEN TrimRight(SubSeq(s, 1, Len(s) - 1), c)
    ELSE s

(* strings.Trim(s, cutset) for a one-character cutset *)
Trim(s, c) == TrimRight(TrimLeft(s, c), c)

(* parts := strings.Split(s, "/"); parts[len(parts)-1] *)
LastSegment(s) ==
  LET slashes == {k \in 1..Len(s) : SubSeq(s, k, k) = "/"}
  IN  IF slashes = {} THEN s
      ELSE SubSeq(s, (CHOOSE k \in slashes : \A j \in slashes : j <= k) + 1, Len(s))

(* fmt.Sprintf("%s_%s.go", baseFileName, suffix) *)
FileName(base, suffix) == base \o "_" \o suffix \o ".go"

(* fmt.Sprintf("%s%d", baseSuffix, n) *)
Numbered(baseSuffix, n) == baseSuffix \o ToString(n)

(***************************************************************************)
(* The two ordered word tables of the suffix namer.                        *)
(***************************************************************************)
alternatives ==
  << "core", "main", "base", "util", "helper", "common", "shared", "extra", "misc", "other",
     "new", "alt", "impl", "logic", "work", "task", "ops", "flow", "step", "part", "unit",
     "chunk", "block", "piece", "item", "elem", "node", "link", "path", "route", "view",
     "ctrl", "model", "data", "info", "meta", "config", "setup", "init", "boot", "start",
     "launch", "run", "exec", "proc", "action", "event", "state", "change", "update",
     "modify", "edit", "fix", "patch", "clean", "clear", "reset", "fresh", "quick", "fast",
     "slow", "temp", "local", "remote", "public", "private", "secure", "safe", "simple",
     "basic", "advanced", "custom", "special", "unique", "single", "multi", "batch",
     "group", "list", "set", "map", "tree", "graph", "queue", "stack", "buffer", "cache",
     "store", "load", "save", "fetch", "send", "recv", "sync", "async", "wait", "done",
     "ready", "active", "idle", "busy", "free", "open", "close", "lock", "unlock", "check",
     "test", "verify", "valid", "error", "warn", "debug", "trace", "log", "print", "show",
     "hide", "render", "draw", "build", "make", "craft", "forge", "shape", "form", "mold",
     "cast", "press", "push", "pull", "move", "shift", "slide", "jump", "skip", "next",
     "prev", "first", "last", "top", "bottom", "left", "right", "center", "middle", "inner",
     "outer", "upper", "lower", "high", "low", "big", "small", "large", "tiny", "huge",
     "mini", "full", "empty", "blank", "void", "null", "zero", "one", "two", "three",
     "many", "few", "some", "all", "none", "auto", "manual", "smart", "dumb", "cool",
     "warm", "hot", "cold", "wet", "dry", "soft", "hard", "light", "dark", "bright", "dim",
     "loud", "quiet", "fast", "slow", "old", "young", "rich", "poor", "true", "false",
     "good", "bad", "nice", "ugly", "clean", "dirty", "pure", "mixed", "solid", "liquid",
     "gas", "fire", "water", "earth", "air", "wood", "metal", "stone", "glass", "paper",
     "cloth", "rope", "wire", "pipe", "tube", "box", "bag", "cup", "bowl", "plate", "knife",
     "fork", "spoon", "tool", "gear", "part", "chip", "disk", "tape", "card", "key", "lock",
     "door", "window", "wall", "floor", "roof", "room", "house", "city", "town", "road",
     "street", "bridge", "river", "lake", "sea", "ocean", "mountain", "hill", "tree",
     "flower", "grass", "leaf", "seed", "fruit", "root", "branch", "trunk", "bark", "wood",
     "forest", "field", "farm", "garden", "park", "zoo", "museum", "school", "library",
     "store", "shop", "market", "bank", "office", "factory", "lab", "studio", "theater",
     "cinema", "restaurant", "cafe", "hotel", "hospital", "church", "temple", "castle",
     "tower", "bridge", "tunnel", "cave", "valley", "desert", "island", "beach", "shore",
     "coast", "port", "harbor", "dock", "ship", "boat", "plane", "train", "car", "bike",
     "truck", "bus", "taxi", "rocket", "satellite", "star", "moon", "sun", "planet",
     "comet", "meteor", "galaxy", "universe", "space", "time", "year", "month", "week",
     "day", "hour", "minute", "second", "moment", "instant", "flash", "spark", "flame",
     "smoke", "cloud", "rain", "snow", "ice", "frost", "dew", "mist", "fog", "wind",
     "storm", "thunder", "lightning", "rainbow", "shadow", "light", "beam", "ray", "wave",
     "sound", "music", "song", "voice", "word", "letter", "number", "symbol", "sign",
     "mark", "dot", "line", "curve", "circle", "square", "triangle", "diamond", "heart",
     "star", "cross", "arrow", "spiral", "wave", "grid", "mesh", "net", "web", "thread",
     "string", "rope", "chain", "link", "bond", "tie", "knot", "loop", "ring", "band",
     "strip", "belt", "strap", "handle", "grip", "hold", "grasp", "touch", "feel", "sense",
     "see", "look", "watch", "view", "scan", "search", "find", "seek", "hunt", "track",
     "follow", "lead", "guide", "direct", "point", "aim", "target", "goal", "end", "finish",
     "complete", "done", "over", "final", "last", "stop", "halt", "pause", "break", "rest",
     "sleep", "wake", "rise", "fall", "drop", "lift", "raise", "lower", "turn", "spin",
     "rotate", "twist", "bend", "fold", "open", "close", "shut", "seal", "break", "crack",
     "split", "join", "merge", "unite", "divide", "separate", "cut", "slice", "chop",
     "tear", "rip", "grab", "catch", "throw", "toss", "cast", "shoot", "fire", "blast",
     "explode", "crash", "smash", "hit", "strike", "punch", "kick", "stomp", "step", "walk",
     "run", "jog", "sprint", "rush", "hurry", "slow", "crawl", "climb", "jump", "leap",
     "hop", "skip", "dance", "swim", "dive", "float", "fly", "soar", "glide", "drift",
     "flow", "stream", "rush", "pour", "drip", "leak", "spill", "splash", "spray", "mist",
     "dust", "powder", "grain", "sand", "dirt", "mud", "clay", "rock", "stone", "pebble",
     "boulder", "crystal", "gem", "gold", "silver", "copper", "iron", "steel", "brass",
     "bronze", "tin", "lead", "zinc", "chrome", "nickel", "cobalt", "carbon", "silicon",
     "oxygen", "hydrogen", "nitrogen", "helium", "neon", "argon", "mercury", "venus",
     "mars", "jupiter", "saturn", "uranus", "neptune", "pluto" >>

keywords ==
  << "parse", "generate", "create", "process", "handle", "convert", "build", "render",
     "execute", "validate", "format", "transform", "encode", "decode", "load", "save",
     "write", "read", "get", "set", "add", "remove", "update", "delete", "find", "search",
     "filter", "sort", "merge", "split", "join", "copy", "move", "clean", "init", "start",
     "stop", "run", "exec", "call", "invoke", "apply", "map", "reduce", "collect", "stream",
     "buffer", "cache", "store", "fetch", "send", "receive", "upload", "download",
     "compress", "extract", "zip", "unzip", "backup", "restore", "sync", "async", "wait",
     "notify", "signal", "lock", "unlock", "open", "close", "connect", "disconnect", "bind",
     "unbind", "listen", "serve", "request", "response", "query", "insert", "select",
     "count", "sum", "max", "min", "avg", "group", "order", "limit", "offset", "page",
     "chunk", "batch", "parallel", "serial", "concurrent", "thread", "worker", "job",
     "task", "queue", "stack", "list", "array", "map", "set", "tree", "graph", "node",
     "edge", "path", "route", "url", "uri", "link", "ref", "ptr", "addr", "size", "len",
     "cap", "empty", "full", "contains", "exists", "valid", "invalid", "ok", "error",
     "warn", "info", "debug", "trace", "log", "print", "show", "display", "render", "draw",
     "paint", "color", "style", "theme", "skin", "layout", "align", "position", "size",
     "resize", "scale", "zoom", "pan", "scroll", "drag", "drop", "click", "hover", "focus",
     "blur", "select", "deselect", "toggle", "switch", "enable", "disable", "show", "hide",
     "visible", "invisible", "active", "inactive", "on", "off", "true", "false", "yes",
     "no", "ok", "cancel", "submit", "reset", "clear", "clean", "flush", "purge", "refresh",
     "reload", "restart", "resume", "pause", "play", "record", "replay", "undo", "redo",
     "cut", "copy", "paste", "clone", "duplicate", "mirror", "reflect", "invert", "reverse",
     "flip", "rotate", "shift", "move", "slide", "fade", "animate", "transition", "effect",
     "filter", "mask", "overlay", "background", "foreground", "layer", "depth", "level",
     "priority", "weight", "rank", "score", "rate", "ratio", "percent", "fraction",
     "decimal", "integer", "float", "double", "string", "char", "byte", "bit", "word",
     "line", "paragraph", "section", "chapter", "page", "document", "file", "folder",
     "directory", "path", "name", "title", "label", "tag", "attr", "prop", "field",
     "column", "row", "cell", "table", "grid", "matrix", "vector", "point", "coord", "pos",
     "loc", "place", "spot", "area", "region", "zone", "space", "room", "box", "container",
     "wrapper", "holder", "frame", "border", "edge", "corner", "side", "top", "bottom",
     "left", "right", "center", "middle", "inner", "outer", "inside", "outside", "before",
     "after", "first", "last", "next", "prev", "current", "new", "old", "temp", "tmp",
     "backup", "orig", "copy", "clone", "draft", "final", "test", "demo", "sample",
     "example", "template", "pattern", "model", "schema", "struct", "class", "type", "kind",
     "sort", "category", "group", "team", "user", "admin", "guest", "public", "private",
     "secure", "safe", "unsafe", "danger", "risk", "warn", "alert", "notice", "message",
     "text", "content", "data", "info", "meta", "config", "setting", "option", "param",
     "arg", "value", "result", "output", "input", "source", "target", "dest", "from", "to",
     "via", "through", "by", "with", "without", "using", "based", "upon", "over", "under",
     "above", "below", "between", "among", "within", "outside", "beyond", "across", "along",
     "around", "through", "during", "while", "until", "since", "before", "after", "when",
     "where", "what", "who", "why", "how", "which", "whose", "whom", "that", "this",
     "these", "those", "such", "same", "other", "another", "each", "every", "all", "any",
     "some", "none", "nothing", "something", "anything", "everything", "somewhere",
     "anywhere", "everywhere", "nowhere", "someone", "anyone", "everyone", "no one" >>

(***************************************************************************)
(* The syntax tree.  A node is an identifier, or a selector expression     *)
(* X.Sel whose X is an identifier or some other expression (a call).  A    *)
(* declaration carries its kind, its position in the file, its name and    *)
(* the nodes below it; an import declaration carries its import specs.     *)
(***************************************************************************)
Ident(n) == [kind |-> "Ident", name |-> n, xkind |-> "", xname |-> ""]

Selector(xkind, xname, sel) ==
  [kind |-> "SelectorExpr", name |-> sel, xkind |-> xkind, xname |-> xname]

(* ast.ImportSpec: Name is nil (hasName = FALSE) or the alias; Path.Value is the
   path literal as written, delimiters included: an interpreted string in
   double quotes or a raw string in backquotes *)
ImportSpec(hasName, name, path) == [hasName |-> hasName, name |-> name, path |-> path]

Decl(kind, name, body, specs) ==
  [kind |-> kind, pos |-> 0, name |-> name, body |-> body, specs |-> specs]

Quote == "\""

(* the delimiter of a raw string literal; "#" stands for the backquote, which
   no string of this module can hold *)
BackQuote == "#"

ImportPool ==
  << Decl("import", "", {},
          << ImportSpec(FALSE, "", Quote \o "fmt" \o Quote),
             ImportSpec(TRUE, "str", Quote \o "strings" \o Quote),
             ImportSpec(TRUE, "_", Quote \o "net/http/pprof" \o Quote) >>),
     Decl("import", "", {},
          << ImportSpec(FALSE, "", Quote \o "path/filepath" \o Quote),
             ImportSpec(TRUE, ".", Quote \o "math" \o Quote),
             ImportSpec(FALSE, "", BackQuote \o "os" \o BackQuote) >>) >>

TypePool ==
  << Decl("type", "Config", {Ident("_"), Ident("int"), Selector("Ident", "os", "File")}, <<>>),
     Decl("type", "Header", {Ident("string"), Selector("Ident", "filepath", "WalkFunc")}, <<>>) >>

FuncPool ==
  << Decl("func", "ParseConfig",
          {Selector("Ident", "fmt", "Println"), Ident("cfg")}, <<>>),
     Decl("func", "ParseArgs",
          {Ident("_"), Ident("args"), Ident("pprof")}, <<>>),
     Decl("func", "Foo",
          {Selector("Ident", "filepath", "Join"), Ident("math")}, <<>>),
     Decl("func", "Fizz",
          {Ident("str"), Selector("CallExpr", "", "os")}, <<>>),
     Decl("func", "LoadFile",
          {Selector("Ident", "f", "Close"), Ident("f")}, <<>>) >>

VarPool ==
  << Decl("var", "debug", {Selector("Ident", "os", "Stderr")}, <<>>),
     Decl("const", "limit", {Ident("int")}, <<>>) >>

(* the first n entries of pool, read cyclically from offset o *)
Cycle(pool, o, n) == [k \in 1..n |-> pool[((o + k - 1) % Len(pool)) + 1]]

Stamp(ds) == [k \in 1..Len(ds) |-> [ds[k] EXCEPT !.pos = k]]

(* node.Decls of a parsed file with nImp import declarations, t type
   declarations, F functions (names starting at pool offset o) and, when
   withVars, a var and a const declaration between them *)
SourceDecls(nImp, t, F, o, withVars) ==
  Stamp(SubSeq(ImportPool, 1, nImp)
        \o Cycle(TypePool, 0, t)
        \o (IF withVars THEN VarPool ELSE <<>>)
        \o Cycle(FuncPool, o, F))

(***************************************************************************)
(* The extractors.                                                         *)
(***************************************************************************)
RECURSIVE Flatten(_)
Flatten(ss) == IF ss = <<>> THEN <<>> ELSE Head(ss) \o Flatten(Tail(ss))

OfKind(ds, kind) == SelectSeq(ds, LAMBDA d : d.kind = kind)

extractImports(ds) ==
  LET gens == OfKind(ds, "import")
  IN  Flatten([k \in 1..Len(gens) |-> gens[k].specs])

(* an extractor that forgets the Tok test: every declaration that is neither
   an import declaration nor a function *)
extractTypeDeclsAnyTok(ds) == SelectSeq(ds, LAMBDA d : d.kind \in {"type", "var", "const"})

extractTypeDecls(ds) == OfKind(ds, "type")

extractFunctions(ds) == OfKind(ds, "func")

(***************************************************************************)
(* The suffix namer.                                                       *)
(***************************************************************************)
(* a fallback that ignores the first function's name *)
firstLetterDropped(funcNames) == "funcs"

(* if len(funcNames[0]) > 0 { return strings.ToLower(string(funcNames[0][0])) }
   return "funcs" *)
firstLetterOf(funcNames) ==
  IF Len(funcNames[1]) > 0 THEN ToLower(SubSeq(funcNames[1], 1, 1)) ELSE "funcs"

(* a suffix chooser that scans the names first: the first keyword that
   matches the first function that matches any *)
generateFilenameSuffixByName(fns, hasTypes) ==
  IF hasTypes THEN "types"
  ELSE IF Len(fns) = 0 THEN "empty"
  ELSE
    LET funcNames == [k \in 1..Len(fns) |-> ToLower(fns[k].name)]
        Hits(j) == {k \in 1..Len(keywords) : Contains(funcNames[j], keywords[k])}
    IN  IF \E j \in 1..Len(funcNames) : Hits(j) # {}
          THEN LET j == CHOOSE a \in 1..Len(funcNames) :
                          Hits(a) # {} /\ \A b \in 1..(a - 1) : Hits(b) = {}
               IN  keywords[CHOOSE k \in Hits(j) : \A m \in Hits(j) : k <= m]
        ELSE firstLetterOf(funcNames)

generateFilenameSuffix(fns, hasTypes) ==
  IF hasTypes THEN "types"
  ELSE IF Len(fns) = 0 THEN "empty"
  ELSE
    LET funcNames == [k \in 1..Len(fns) |-> ToLower(fns[k].name)]
        Hit(k) == \E j \in 1..Len(funcNames) : Contains(funcNames[j], keywords[k])
    IN  IF \E k \in 1..Len(keywords) : Hit(k)
          THEN keywords[CHOOSE k \in 1..Len(keywords) :
                          Hit(k) /\ \A j \in 1..(k - 1) : ~Hit(j)]
        ELSE firstLetterOf(funcNames)

(* a collision check that forgets the directory listing *)
IsFreeInRunOnly(baseFileName, s, existing, used) == s \notin used

(* !existingFiles[filename] && !usedNames[suffix] *)
IsFree(baseFileName, s, existing, used) ==
  FileName(baseFileName, s) \notin existing /\ s \notin used

generateUniqueFilenameSuffix(fns, hasTypes, baseFileName, existing, used) ==
  LET baseSuffix == generateFilenameSuffix(fns, hasTypes)
      Free(s) == IsFree(baseFileName, s, existing, used)
      FreeAlt(k) == Free(alternatives[k])
      FreeNum(n) == Free(Numbered(baseSuffix, n))
  IN  IF Free(baseSuffix) THEN baseSuffix
      ELSE IF \E k \in 1..Len(alternatives) : FreeAlt(k)
        THEN alternatives[CHOOSE k \in 1..Len(alternatives) :
                            FreeAlt(k) /\ \A j \in 1..(k - 1) : ~FreeAlt(j)]
      ELSE IF \E n \in 1..MaxNum : FreeNum(n)
        THEN Numbered(baseSuffix,
                      CHOOSE n \in 1..MaxNum : FreeNum(n) /\ \A j \in 1..(n - 1) : ~FreeNum(j))
      ELSE Numbered(baseSuffix, MaxNum)

(***************************************************************************)
(* The import resolver.                                                    *)
(***************************************************************************)
(* the nodes ast.Inspect visits at and below one node *)
Visited(node) ==
  IF node.kind = "SelectorExpr"
    THEN {node, Ident(node.name)}
           \cup (IF node.xkind = "Ident" THEN {Ident(node.xname)} ELSE {})
    ELSE {node}

(* ast.Inspect(decl, ...): the declaration's name and everything below it *)
Inspect(decl) == {Ident(decl.name)} \cup UNION {Visited(n) : n \in decl.body}

(* the switch of the callback: what one visited node adds to usedIdentifiers *)
Collected(node) ==
  IF node.kind = "SelectorExpr"
    THEN (IF node.xkind = "Ident" THEN {node.xname} ELSE {})
  ELSE IF node.kind = "Ident" THEN {node.name}
  ELSE {}

usedIdentifiersOf(decls) ==
  UNION {Collected(n) : n \in UNION {Inspect(decls[k]) : k \in 1..Len(decls)}}

(* an import name taken from the path even when the import has an alias *)
importNameFromPath(imp) == LastSegment(Trim(imp.path, Quote))

importNameOf(imp) ==
  IF imp.hasName THEN imp.name ELSE LastSegment(Trim(imp.path, Quote))

analyzeRequiredImports(fns, typeDecls, allImports) ==
  LET usedIdentifiers == usedIdentifiersOf(fns) \cup usedIdentifiersOf(typeDecls)
  IN  SelectSeq(allImports, LAMBDA imp : importNameOf(imp) \in usedIdentifiers)

(***************************************************************************)
(* The program's input and the destination directory.                      *)
(***************************************************************************)
(* os.Args[1] *)
inputFile == "pkg/base.go"

(* node.Name.Name *)
PackageName == "main"

baseFileNameOf(path) == TrimSuffix(LastSegment(path), ".go")

(* a directory entry: content is empty for a file this program did not write,
   and holds the assembled file for one it wrote *)
OldFile == [isDir |-> FALSE, status |-> "old", content |-> <<>>]

Directory == [OldFile EXCEPT !.isDir = TRUE]

(* entries every directory snapshot holds: a file that is not a .go file and a
   directory whose name ends in .go *)
FixedEntries == ("README.md" :> OldFile) @@ ("internal.go" :> Directory)

DirWith(suffixes) ==
  [n \in {FileName(baseFileNameOf(inputFile), s) : s \in suffixes} |-> OldFile]
    @@ FixedEntries

DirCandidates == {"types", "parse"}

(* a crowded directory: every candidate suffix, every alternative word and
   every numbered variant of "parse" is taken *)
SaturatedSuffixes ==
  {alternatives[k] : k \in 1..Len(alternatives)}
    \cup DirCandidates
    \cup {Numbered("parse", n) : n \in 1..MaxNum}

DirChoices == {DirWith(S) : S \in SUBSET DirCandidates}

CrowdedDir == DirWith(SaturatedSuffixes)

Offsets == {0, 4}

VARIABLES
  decls,          \* node.Decls of the parsed input file
  numFiles,       \* os.Args[2]
  disk,           \* the destination directory: entry name -> entry
  pc,             \* "start", "loop" or "done"
  run,            \* which invocation of the program this is
  err,            \* the error splitGoFile returned ("" for nil)
  packageName, imports, typeDecls, functions,
  existingFiles, funcsPerFile, usedNames, i,
  dirListed,      \* whether getExistingFiles was called in this run
  calls,          \* the calls of writeGoFile made in this run, in order
  stdout,         \* the "Created: ..." lines of this run
  diskAtStart     \* the directory as it was when this run started

vars ==
  << decls, numFiles, disk, pc, run, err, packageName, imports, typeDecls, functions,
     existingFiles, funcsPerFile, usedNames, i, dirListed, calls, stdout, diskAtStart >>

locals == << packageName, imports, typeDecls, functions, existingFiles, funcsPerFile,
             usedNames, i >>

Fresh ==
  /\ pc = "start"
  /\ err = ""
  /\ packageName = ""
  /\ imports = <<>>
  /\ typeDecls = <<>>
  /\ functions = <<>>
  /\ existingFiles = {}
  /\ funcsPerFile = 0
  /\ usedNames = {}
  /\ i = 0
  /\ dirListed = FALSE
  /\ calls = <<>>
  /\ stdout = <<>>

Init ==
  /\ \/ /\ \E F \in 0..MaxFuncs, o \in Offsets, t \in 0..MaxTypes :
            decls = SourceDecls(Len(ImportPool), t, F, o, TRUE)
        /\ numFiles \in 1..MaxFiles
        /\ disk \in DirChoices
     \/ /\ \E F \in 1..MaxCrowded, o \in Offsets :
            decls = SourceDecls(Len(ImportPool), 0, F, o, TRUE)
        /\ numFiles \in 1..MaxCrowded
        /\ disk = CrowdedDir
  /\ diskAtStart = disk
  /\ run = 1
  /\ Fresh

(* getExistingFiles: the names of the directory's .go files that are not directories *)
getExistingFiles(dir) == {n \in DOMAIN dir : ~dir[n].isDir /\ HasSuffix(n, ".go")}

(* a group size that drops the rounding up *)
funcsPerFileFloor(nFuncs, nFiles) == nFuncs \div nFiles

(* len(functions) / numFiles, plus one when the division leaves a remainder *)
funcsPerFileOf(nFuncs, nFiles) ==
  IF nFuncs % nFiles # 0 THEN (nFuncs \div nFiles) + 1 ELSE nFuncs \div nFiles

(***************************************************************************)
(* splitGoFile up to the loop: parse, extract, reject an empty function    *)
(* list, list the directory, compute the group size.                       *)
(***************************************************************************)
(* an empty-input test that never fires *)
noFunctionsNever(fns) == FALSE

(* len(functions) == 0 *)
noFunctions(fns) == Len(fns) = 0

Begin ==
  /\ pc = "start"
  /\ packageName' = PackageName
  /\ imports' = extractImports(decls)
  /\ typeDecls' = extractTypeDecls(decls)
  /\ functions' = extractFunctions(decls)
  /\ IF noFunctions(functions')
       THEN /\ err' = "no functions found in file"
            /\ pc' = "done"
            /\ UNCHANGED << existingFiles, funcsPerFile, dirListed >>
       ELSE \E readOk \in BOOLEAN :
              /\ dirListed' = TRUE
              /\ IF readOk
                   THEN /\ existingFiles' = getExistingFiles(disk)
                        /\ funcsPerFile' = funcsPerFileOf(Len(functions'), numFiles)
                        /\ pc' = "loop"
                        /\ err' = ""
                   ELSE /\ err' = "failed to read directory"
                        /\ pc' = "done"
                        /\ UNCHANGED << existingFiles, funcsPerFile >>
  /\ usedNames' = {}
  /\ i' = 0
  /\ UNCHANGED << decls, numFiles, disk, run, calls, stdout, diskAtStart >>

(***************************************************************************)
(* One iteration of the loop over the groups.                              *)
(***************************************************************************)
GroupStart == i * funcsPerFile

GroupEnd ==
  IF GroupStart + funcsPerFile > Len(functions)
    THEN Len(functions)
    ELSE GroupStart + funcsPerFile

(* the loop condition without the break on an exhausted function list *)
InLoopNoBreak == i < numFiles

(* the loop condition and the break *)
InLoop == i < numFiles /\ ~(GroupStart >= Len(functions))

(* the ast.File writeGoFile assembles: the import block only if there are
   imports, then the type declarations, then the functions *)
AssembledFile(pkg, imps, types, fns, who) ==
  [writer |-> who, package |-> pkg,
   imports |-> IF Len(imps) > 0 THEN << imps >> ELSE <<>>,
   decls |-> types \o fns]

(* the directory with entry name created or replaced *)
Put(dir, name, entry) ==
  IF name \in DOMAIN dir
    THEN [dir EXCEPT ![name] = entry]
    ELSE [n \in DOMAIN dir \cup {name} |-> IF n = name THEN entry ELSE dir[n]]

(* a writer that, on failure, removes what this run wrote before *)
writeGoFileRollback(dir, filename, pkg, imps, types, fns, who, outcome) ==
  IF outcome = "ok"
    THEN Put(dir, filename, [isDir |-> FALSE, status |-> "written",
                             content |-> << AssembledFile(pkg, imps, types, fns, who) >>])
    ELSE [n \in {m \in DOMAIN dir : ~(dir[m].status = "written"
                                       /\ dir[m].content[1].writer[1] = who[1])} |-> dir[n]]

(* the directory after writeGoFile: os.Create fails and nothing changes, or
   it truncates the file and format.Node fails, or the file is written *)
writeGoFile(dir, filename, pkg, imps, types, fns, who, outcome) ==
  IF outcome = "createFail" THEN dir
  ELSE IF outcome = "writeFail"
    THEN Put(dir, filename, [isDir |-> FALSE, status |-> "partial", content |-> <<>>])
  ELSE Put(dir, filename, [isDir |-> FALSE, status |-> "written",
                           content |-> << AssembledFile(pkg, imps, types, fns, who) >>])

(* the type declarations handed to every group *)
typesForFileAll(group, types) == types

(* var typesForFile []*ast.GenDecl; if i == 0 { typesForFile = typeDecls } *)
typesForFileOf(group, types) == IF group = 0 THEN types ELSE <<>>

(* a type-bearing test that looks at the declarations instead of the index *)
hasTypesWhenAny(group, types) == Len(types) > 0

(* the hasTypes argument: i == 0 *)
hasTypesOf(group, types) == group = 0

(* a bookkeeping step that forgets the suffix *)
markUsedDropped(used, suffix) == used

(* usedNames[suffix] = true *)
markUsed(used, suffix) == used \cup {suffix}

Outcomes == {"ok", "createFail", "writeFail"}

WriteGroup(outcome) ==
  /\ pc = "loop"
  /\ InLoop
  /\ LET fns == SubSeq(functions, GroupStart + 1, GroupEnd)
         typesForFile == typesForFileOf(i, typeDecls)
         baseFileName == baseFileNameOf(inputFile)
         suffix == generateUniqueFilenameSuffix(fns, hasTypesOf(i, typeDecls), baseFileName,
                                                existingFiles, usedNames)
         outputFile == FileName(baseFileName, suffix)
         requiredImports == analyzeRequiredImports(fns, typesForFile, imports)
     IN  \* os.Create of a directory's name always fails
         /\ (outputFile \in DOMAIN disk /\ disk[outputFile].isDir) => outcome = "createFail"
         /\ usedNames' = markUsed(usedNames, suffix)
         /\ disk' = writeGoFile(disk, outputFile, packageName, requiredImports,
                                typesForFile, fns, << run, i >>, outcome)
         /\ calls' = Append(calls, [group |-> i, suffix |-> suffix, filename |-> outputFile,
                                    imports |-> requiredImports, types |-> typesForFile,
                                    functions |-> fns, outcome |-> outcome])
         /\ IF outcome = "ok"
              THEN /\ stdout' = Append(stdout, outputFile)
                   /\ i' = i + 1
                   /\ UNCHANGED << pc, err >>
              ELSE /\ err' = "failed to write"
                   /\ pc' = "done"
                   /\ UNCHANGED << stdout, i >>
  /\ UNCHANGED << decls, numFiles, run, packageName, imports, typeDecls, functions,
                  existingFiles, funcsPerFile, dirListed, diskAtStart >>

(* the loop ends (i reached numFiles, or the break): return nil *)
Finish ==
  /\ pc = "loop"
  /\ ~InLoop
  /\ pc' = "done"
  /\ UNCHANGED << decls, numFiles, disk, run, err, locals, dirListed, calls, stdout,
                  diskAtStart >>

(* the program, having returned nil, is started again on the same input in
   the same directory *)
Rerun ==
  /\ pc = "done"
  /\ err = ""
  /\ run < MaxRuns
  /\ run' = run + 1
  /\ diskAtStart' = disk
  /\ pc' = "start"
  /\ err' = ""
  /\ packageName' = ""
  /\ imports' = <<>>
  /\ typeDecls' = <<>>
  /\ functions' = <<>>
  /\ existingFiles' = {}
  /\ funcsPerFile' = 0
  /\ usedNames' = {}
  /\ i' = 0
  /\ dirListed' = FALSE
  /\ calls' = <<>>
  /\ stdout' = <<>>
  /\ UNCHANGED << decls, numFiles, disk >>

Next ==
  \/ Begin
  \/ \E outcome \in Outcomes : WriteGroup(outcome)
  \/ Finish
  \/ Rerun

Spec == Init /\ [][Next]_vars

(***************************************************************************)
(* What the claims speak about.                                            *)
(***************************************************************************)
OriginalFunctions == SelectSeq(decls, LAMBDA d : d.kind = "func")

OriginalTypes == SelectSeq(decls, LAMBDA d : d.kind = "type")

OriginalImports ==
  LET gens == SelectSeq(decls, LAMBDA d : d.kind = "import")
  IN  Flatten([k \in 1..Len(gens) |-> gens[k].specs])

(* the function lists handed to writeGoFile, concatenated in call order *)
CallFunctions == Flatten([k \in 1..Len(calls) |-> calls[k].functions])

RunSucceeded == pc = "done" /\ err = ""

(* ceil(F / N) *)
CeilDiv(F, N) == CHOOSE c \in 0..F : c * N >= F /\ (c - 1) * N < F

MinOf(a, b) == IF a < b THEN a ELSE b

BaseName == baseFileNameOf(inputFile)

(* C1: when a run completes without error, the function lists handed to
   writeGoFile, concatenated in group order, are the source's function list:
   every function is in exactly one group, exactly once, in source order. *)
C1_PartitionKeepsEveryFunction ==
  RunSucceeded =>
    /\ \A k \in 1..Len(calls) : calls[k].group = k - 1
    /\ CallFunctions = OriginalFunctions
    /\ \A p \in 1..Len(decls) :
         decls[p].kind = "func" =>
           /\ Cardinality({k \in 1..Len(calls) :
                 \E j \in 1..Len(calls[k].functions) : calls[k].functions[j].pos = p}) = 1
           /\ \A k \in 1..Len(calls) :
                Cardinality({j \in 1..Len(calls[k].functions) :
                               calls[k].functions[j].pos = p}) <= 1

C1_Witness ==
  /\ RunSucceeded
  /\ Len(OriginalFunctions) = 7
  /\ numFiles = 3
  /\ Len(calls) = 3

(* C2: with c = ceil(F/N) the emitted groups are the indices i < N with
   i*c < F; group i holds the functions [i*c, min((i+1)*c, F)); every group
   but the last has c functions, the last between 1 and c, none is empty;
   7 functions into 3 files give sizes 3, 3, 1 and N > F gives F groups of
   one function. *)
C2_GroupShapes ==
  LET F == Len(OriginalFunctions)
      c == CeilDiv(F, numFiles)
      Emitted == {g \in 0..(numFiles - 1) : g * c < F}
  IN  /\ \A k \in 1..Len(calls) :
           LET g == k - 1
               n == Len(calls[k].functions)
           IN  /\ calls[k].group = g
               /\ g \in Emitted
               /\ calls[k].functions = SubSeq(OriginalFunctions, g * c + 1, MinOf((g + 1) * c, F))
               /\ 1 <= n /\ n <= c
               /\ (g + 1 \in Emitted) => n = c
      /\ RunSucceeded =>
           /\ Len(calls) = Cardinality(Emitted)
           /\ (F = 7 /\ numFiles = 3) =>
                [k \in 1..Len(calls) |-> Len(calls[k].functions)] = << 3, 3, 1 >>
           /\ numFiles > F =>
                /\ Len(calls) = F
                /\ \A k \in 1..Len(calls) : Len(calls[k].functions) = 1

C2_Witness ==
  /\ RunSucceeded
  /\ Len(OriginalFunctions) = 2
  /\ numFiles = 5
  /\ Len(calls) = 2

(* C3: the source's full type-declaration list is handed to group 0 and to
   no other group, also when it is empty; group 0 is then still named as the
   type-bearing group. *)
C3_TypesOnlyInGroupZero ==
  \A k \in 1..Len(calls) :
    /\ calls[k].types = (IF calls[k].group = 0 THEN OriginalTypes ELSE <<>>)
    /\ (calls[k].group = 0 /\ FileName(BaseName, "types") \notin existingFiles)
         => calls[k].suffix = "types"

C3_Witness ==
  /\ Len(calls) >= 2
  /\ OriginalTypes # <<>>
  /\ calls[1].types = OriginalTypes
  /\ calls[2].types = <<>>

(***************************************************************************)
(* Names and collisions, as the claims state them.                         *)
(***************************************************************************)
(* a regular .go file of this name was in the directory when the run started *)
PresentAtStart(name) ==
  /\ name \in DOMAIN diskAtStart
  /\ ~diskAtStart[name].isDir
  /\ HasSuffix(name, ".go")

(* suffix s is used by a group before call k, or its file pre-exists *)
Taken(k, s) ==
  \/ \E j \in 1..(k - 1) : calls[j].suffix = s
  \/ PresentAtStart(FileName(BaseName, s))

SomeAlternativeFree(k) == \E a \in 1..Len(alternatives) : ~Taken(k, alternatives[a])

FirstFreeAlternative(k) ==
  alternatives[CHOOSE a \in 1..Len(alternatives) :
                 /\ ~Taken(k, alternatives[a])
                 /\ \A b \in 1..(a - 1) : Taken(k, alternatives[b])]

(* what replaces a base suffix that is taken *)
Replacement(k, base) ==
  IF SomeAlternativeFree(k) THEN FirstFreeAlternative(k)
  ELSE IF \E n \in 1..MaxNum : ~Taken(k, Numbered(base, n))
    THEN Numbered(base, CHOOSE n \in 1..MaxNum :
                          /\ ~Taken(k, Numbered(base, n))
                          /\ \A m \in 1..(n - 1) : Taken(k, Numbered(base, m)))
  ELSE Numbered(base, MaxNum)

(* the lower-cased function names of which no keyword is a substring *)
KeywordFreeNames ==
  {n \in {ToLower(FuncPool[j].name) : j \in 1..Len(FuncPool)} :
     \A w \in 1..Len(keywords) : ~Contains(n, keywords[w])}

NoKeywordMatches(fns) == \A j \in 1..Len(fns) : ToLower(fns[j].name) \in KeywordFreeNames

(* suffix s is the last resort of call k: no alternative word is free, s is
   b999 for a base b, and b and every one of b1..b999 are taken *)
LastResort(k, s) ==
  LET tail == ToString(MaxNum)
      b == TrimSuffix(s, tail)
  IN  /\ HasSuffix(s, tail)
      /\ ~SomeAlternativeFree(k)
      /\ Taken(k, b)
      /\ \A n \in 1..MaxNum : Taken(k, Numbered(b, n))

(* C4 as stated: the suffixes of one run are pairwise distinct, no output
   file name is the name of a .go file present at run start, and every
   chosen suffix is in usedNames. *)
C4_SuffixesUniqueAndFree ==
  /\ \A k, l \in 1..Len(calls) : k # l => calls[k].suffix # calls[l].suffix
  /\ \A k \in 1..Len(calls) :
       /\ calls[k].filename = FileName(BaseName, calls[k].suffix)
       /\ ~PresentAtStart(calls[k].filename)
       /\ calls[k].suffix \in usedNames

(* C4, amended: every suffix differs from the suffixes of the earlier groups
   of the run and names no .go file present at run start, except the last
   resort b999, returned when the base suffix b, every alternative word and
   every one of b1..b999 are taken; each chosen suffix is in usedNames before
   the next group is named, and usedNames never shrinks during a run. *)
C4_SuffixesUniqueUnlessLastResort ==
  /\ [](\A k \in 1..Len(calls) :
          /\ calls[k].filename = FileName(BaseName, calls[k].suffix)
          /\ calls[k].suffix \in usedNames
          /\ ~Taken(k, calls[k].suffix) \/ LastResort(k, calls[k].suffix))
  /\ [][run' = run => usedNames \subseteq usedNames']_vars

C4_Witness ==
  \E k, l \in 1..Len(calls) :
    /\ 1 < k /\ k < l
    /\ Contains(ToLower(calls[k].functions[1].name), "parse")
    /\ Contains(ToLower(calls[l].functions[1].name), "parse")
    /\ calls[k].suffix = "parse"
    /\ calls[l].suffix = "core"

(* the crowded case of C4: a last-resort suffix that collides *)
C4_LastResortReached ==
  \E k \in 1..Len(calls) : Taken(k, calls[k].suffix) /\ LastResort(k, calls[k].suffix)

(* C5 as stated: a second run in the same directory overwrites nothing:
   every file it creates has a name that no entry had when it started. *)
C5_SecondRunOverwritesNothing ==
  run >= 2 =>
    \A k \in 1..Len(calls) :
      calls[k].outcome # "createFail" => calls[k].filename \notin DOMAIN diskAtStart

(* C5, amended: a second run creates no file under a name that an entry had
   when it started, the outputs of the first run included, except under a
   last-resort name b999 when b, every alternative word and b1..b999 are all
   taken; a group whose base suffix is present is given a free suffix. *)
C5_SecondRunOverwritesOnlyLastResort ==
  run >= 2 =>
    \A k \in 1..Len(calls) :
      calls[k].outcome # "createFail" =>
        \/ calls[k].filename \notin DOMAIN diskAtStart
        \/ LastResort(k, calls[k].suffix)

C5_Witness ==
  /\ run = 2
  /\ PresentAtStart(FileName(BaseName, "parse"))
  /\ diskAtStart[FileName(BaseName, "parse")].status = "written"
  /\ \E k \in 1..Len(calls) :
       /\ calls[k].group # 0
       /\ Contains(ToLower(calls[k].functions[1].name), "parse")
       /\ calls[k].suffix # "parse"
       /\ calls[k].outcome = "ok"
       /\ calls[k].filename \notin DOMAIN diskAtStart

(***************************************************************************)
(* Imports, as the claims state them.                                      *)
(***************************************************************************)
(* alias if present, else the last "/"-separated segment of the path *)
BoundName(imp) ==
  IF imp.hasName THEN imp.name
  ELSE LET body == SubSeq(imp.path, 2, Len(imp.path) - 1)
           cut == CHOOSE c \in 0..Len(body) :
                    /\ c = 0 \/ SubSeq(body, c, c) = "/"
                    /\ \A m \in (c + 1)..Len(body) : SubSeq(body, m, m) # "/"
       IN  SubSeq(body, cut + 1, Len(body))

(* every node of a declaration's subtree *)
SubtreeNodes(d) ==
  {Ident(d.name)} \cup d.body
    \cup {Ident(n.name) : n \in {m \in d.body : m.kind = "SelectorExpr"}}
    \cup {Ident(n.xname) : n \in {m \in d.body : m.kind = "SelectorExpr" /\ m.xkind = "Ident"}}

(* the names of identifier nodes, and of identifiers left of a selector, in
   the functions of call k and, for group 0, in the type declarations *)
ReferencedNames(k) ==
  LET ds == calls[k].functions \o (IF calls[k].group = 0 THEN OriginalTypes ELSE <<>>)
      nodes == UNION {SubtreeNodes(ds[j]) : j \in 1..Len(ds)}
  IN  {n.name : n \in {m \in nodes : m.kind = "Ident"}}
        \cup {n.xname : n \in {m \in nodes : m.kind = "SelectorExpr" /\ m.xkind = "Ident"}}

IsBlankImport(imp) == imp.hasName /\ imp.name = "_"

InSeq(x, s) == \E j \in 1..Len(s) : s[j] = x

(* C6: an import is in a group's import list iff its bound name is the name
   of an identifier node (or of the identifier left of a selector) in the
   group's functions or, for group 0, the type declarations; the retained
   imports keep their order. *)
C6_ImportsIffReferenced ==
  \A k \in 1..Len(calls) :
    calls[k].imports =
      SelectSeq(OriginalImports, LAMBDA imp : BoundName(imp) \in ReferencedNames(k))

(* the case that refutes C6: a group whose functions name os, written
   without the import whose path is the raw string literal of os *)
C6_RawStringImportDropped ==
  \E k \in 1..Len(calls), j \in 1..Len(OriginalImports) :
    /\ ~OriginalImports[j].hasName
    /\ SubSeq(OriginalImports[j].path, 1, 1) = BackQuote
    /\ BoundName(OriginalImports[j]) = "os"
    /\ "os" \in ReferencedNames(k)
    /\ ~InSeq(OriginalImports[j], calls[k].imports)

(* C7 as stated: a blank import is in no group's import list. *)
C7_BlankImportAlwaysDropped ==
  \A k \in 1..Len(calls) :
    \A j \in 1..Len(calls[k].imports) : ~IsBlankImport(calls[k].imports[j])

(* C7, amended: a blank import is dropped from exactly the groups whose
   functions and (for group 0) type declarations hold no identifier node
   named "_"; a group that uses the blank identifier keeps it. *)
C7_BlankImportDroppedUnlessBlankUsed ==
  \A k \in 1..Len(calls) :
    \A j \in 1..Len(OriginalImports) :
      IsBlankImport(OriginalImports[j]) =>
        (InSeq(OriginalImports[j], calls[k].imports) <=> "_" \in ReferencedNames(k))

C7_Witness ==
  /\ Len(calls) >= 2
  /\ \E j \in 1..Len(calls[1].imports) : IsBlankImport(calls[1].imports[j])
  /\ "_" \in ReferencedNames(1)
  /\ "_" \notin ReferencedNames(2)
  /\ \A j \in 1..Len(calls[2].imports) : ~IsBlankImport(calls[2].imports[j])

(***************************************************************************)
(* Suffixes, as the claims state them.                                     *)
(***************************************************************************)
(* C8 as stated: the suffix of group 0 is always "types". *)
C8_GroupZeroAlwaysTypes ==
  \A k \in 1..Len(calls) : calls[k].group = 0 => calls[k].suffix = "types"

(* C8, amended: the base suffix of group 0 is "types" whatever its function
   names; it is the suffix unless a file <base>_types.go was present at run
   start, and then collision checking replaces it: by the first alternative
   word that is free, else by the first free of types1..types999, else by
   types999. *)
C8_GroupZeroTypesUnlessPresent ==
  \A k \in 1..Len(calls) :
    calls[k].group = 0 =>
      calls[k].suffix = (IF Taken(k, "types") THEN Replacement(k, "types") ELSE "types")

C8_Witness ==
  /\ Len(calls) >= 1
  /\ calls[1].group = 0
  /\ PresentAtStart(FileName(BaseName, "types"))
  /\ calls[1].suffix = "core"

(* C9 as stated: a group that is not type-bearing and matches no keyword is
   named by the first alternative word that is neither used nor present. *)
C9_NoKeywordTakesFirstAlternative ==
  \A k \in 1..Len(calls) :
    (calls[k].group # 0 /\ NoKeywordMatches(calls[k].functions) /\ SomeAlternativeFree(k))
      => calls[k].suffix = FirstFreeAlternative(k)

(* C9, amended: such a group's base suffix is the lower-cased first
   character of its first function's name; that is the suffix when it is
   neither used in this run nor the suffix of a file present at run start;
   otherwise the suffix is the first alternative word that is neither, else
   the first free of base1..base999, else base999. *)
C9_NoKeywordTakesFirstLetter ==
  \A k \in 1..Len(calls) :
    (calls[k].group # 0 /\ NoKeywordMatches(calls[k].functions)) =>
      LET base == LowerChar(SubSeq(calls[k].functions[1].name, 1, 1))
      IN  calls[k].suffix = (IF Taken(k, base) THEN Replacement(k, base) ELSE base)

C9_Witness ==
  \E k \in 1..Len(calls) :
    /\ calls[k].group # 0
    /\ NoKeywordMatches(calls[k].functions)
    /\ Taken(k, "f")
    /\ calls[k].suffix = "core"

(***************************************************************************)
(* Failure of one group's write.                                           *)
(***************************************************************************)
(* what holds once the write of a group has failed *)
AbortedAt(k) ==
  /\ k = Len(calls)
  /\ pc = "done"
  /\ err = "failed to write"
  /\ usedNames = {calls[j].suffix : j \in 1..k}
  /\ stdout = [j \in 1..(k - 1) |-> calls[j].filename]

FailedStep ==
  /\ Len(calls') = Len(calls) + 1
  /\ calls'[Len(calls')].outcome # "ok"

KeptByStep(name) ==
  /\ name \in DOMAIN disk
  /\ name \in DOMAIN disk'
  /\ disk'[name] = disk[name]

(* C10 as stated: if the write of group k fails, splitGoFile returns the
   error at once: no later group is named or written, no "Created" line is
   printed for k, and every file written for groups 0..k-1 is on disk
   unchanged. *)
C10_FailureKeepsEarlierFiles ==
  /\ [](\A k \in 1..Len(calls) : calls[k].outcome # "ok" => AbortedAt(k))
  /\ [][FailedStep => \A j \in 1..Len(calls) : KeptByStep(calls[j].filename)]_vars

(* C10, amended: as stated, except that an earlier group's file is truncated
   when group k was given the same last-resort name b999 and the failure
   came after os.Create; every other earlier file is unchanged. *)
C10_FailureKeepsOtherFiles ==
  /\ [](\A k \in 1..Len(calls) : calls[k].outcome # "ok" => AbortedAt(k))
  /\ [][FailedStep =>
          \A j \in 1..Len(calls) :
            \/ KeptByStep(calls[j].filename)
            \/ /\ calls[j].filename = calls'[Len(calls')].filename
               /\ calls'[Len(calls')].outcome = "writeFail"
               /\ LastResort(Len(calls) + 1, calls'[Len(calls')].suffix)]_vars

C10_Witness ==
  /\ Len(calls) >= 3
  /\ calls[Len(calls)].outcome = "writeFail"
  /\ pc = "done"
  /\ \A j \in 1..(Len(calls) - 1) :
       /\ calls[j].filename \in DOMAIN disk
       /\ disk[calls[j].filename].status = "written"

(***************************************************************************)
(* A source without functions.                                             *)
(***************************************************************************)
(* C11: a run on a source with no function declaration, whether or not it
   has type declarations, ends with the error "no functions found in file"
   before the directory is listed and before any group is processed: no
   group is named or written, nothing is printed, the directory is as it
   was at run start and usedNames stays empty. *)
C11_EmptyInputFailsBeforeListing ==
  (Len(OriginalFunctions) = 0 /\ pc # "start") =>
    /\ pc = "done"
    /\ err = "no functions found in file"
    /\ ~dirListed
    /\ existingFiles = {}
    /\ calls = <<>>
    /\ stdout = <<>>
    /\ usedNames = {}
    /\ disk = diskAtStart

C11_Witness ==
  /\ Len(OriginalFunctions) = 0
  /\ Len(OriginalTypes) >= 1
  /\ pc = "done"
  /\ err = "no functions found in file"
  /\ \E n \in DOMAIN disk : HasSuffix(n, "_types.go")

(***************************************************************************)
(* The keyword of a group.                                                 *)
(***************************************************************************)
(* for each lower-cased function name, the indices of the keywords that are
   substrings of it *)
MatchingKeywords ==
  [n \in {ToLower(FuncPool[j].name) : j \in 1..Len(FuncPool)} |->
     {w \in 1..Len(keywords) : Contains(n, keywords[w])}]

(* the lower-cased names of the functions of call k, as a set: neither their
   order nor how often a keyword matches is kept *)
GroupNames(k) == {ToLower(calls[k].functions[j].name) : j \in 1..Len(calls[k].functions)}

(* the smallest keyword index that matches at least one of the names *)
SmallestMatch(names) ==
  LET ws == UNION {MatchingKeywords[n] : n \in names}
  IN  CHOOSE w \in ws : \A v \in ws : w <= v

Reverse(s) == [j \in 1..Len(s) |-> s[Len(s) + 1 - j]]

(* C12: for a group that is not type-bearing and in which some keyword
   matches, the base suffix is the keyword of smallest index in the keyword
   list that is a substring of the lower-cased name of at least one function
   of the group; it is a function of the set of names, so it is the same for
   the group's functions in reverse order, and it is the suffix the group is
   given unless collision checking replaces it. *)
C12_SmallestKeywordIndexWins ==
  \A k \in 1..Len(calls) :
    (calls[k].group # 0 /\ ~NoKeywordMatches(calls[k].functions)) =>
      LET kw == keywords[SmallestMatch(GroupNames(k))]
      IN  /\ generateFilenameSuffix(calls[k].functions, FALSE) = kw
          /\ generateFilenameSuffix(Reverse(calls[k].functions), FALSE) = kw
          /\ calls[k].suffix = (IF Taken(k, kw) THEN Replacement(k, kw) ELSE kw)

(* a group whose first function matches only keywords that come later in
   the list than the one a later function of the group matches *)
C12_Witness ==
  \E k \in 1..Len(calls) :
    /\ calls[k].group # 0
    /\ Len(calls[k].functions) >= 2
    /\ MatchingKeywords[ToLower(calls[k].functions[1].name)] # {}
    /\ \A w \in MatchingKeywords[ToLower(calls[k].functions[1].name)] :
         w > SmallestMatch(GroupNames(k))
    /\ calls[k].suffix = keywords[SmallestMatch(GroupNames(k))]
    /\ calls[k].suffix = "parse"

(***************************************************************************)
(* What reaches the output.                                                *)
(***************************************************************************)
(* the source's declarations without its var and const declarations *)
SourceWithoutVarConst == SelectSeq(decls, LAMBDA d : d.kind \notin {"var", "const"})

(* the import specs, and the other declarations, handed to writeGoFile *)
WrittenImports == UNION {{calls[k].imports[j] : j \in 1..Len(calls[k].imports)} : k \in 1..Len(calls)}

WrittenTypes == Flatten([k \in 1..Len(calls) |-> calls[k].types])

WrittenDecls == {WrittenTypes[j] : j \in 1..Len(WrittenTypes)}
                  \cup {CallFunctions[j] : j \in 1..Len(CallFunctions)}

(* the files on disk that some run wrote *)
OutputFiles == {n \in DOMAIN disk : ~disk[n].isDir /\ disk[n].status = "written"}

(* no file on disk, of this run or an earlier one, holds anything but type
   and function declarations and import specs of the source *)
OnlyImportsTypesFunctionsOnDisk ==
  \A n \in OutputFiles :
    LET file == disk[n].content[1]
    IN  /\ \A j \in 1..Len(file.decls) : file.decls[j].kind \in {"type", "func"}
        /\ \A g \in 1..Len(file.imports) : \A j \in 1..Len(file.imports[g]) :
             InSeq(file.imports[g][j], OriginalImports)

(* C13 as stated: var and const declarations are in no output file, and the
   declarations written by a completed run are the source's declarations
   minus its var and const declarations, import declarations included. *)
C13_OutputIsSourceMinusVarConst ==
  /\ OnlyImportsTypesFunctionsOnDisk
  /\ RunSucceeded =>
       /\ WrittenDecls = {d \in {SourceWithoutVarConst[j] : j \in 1..Len(SourceWithoutVarConst)} :
                            d.kind # "import"}
       /\ WrittenImports = {OriginalImports[j] : j \in 1..Len(OriginalImports)}

(* C13, amended: var and const declarations are in no output file of any
   run; a completed run hands every type declaration and every function
   declaration of the source to writeGoFile exactly once, in source order;
   of the import declarations only specs of the source are written, and a
   spec whose bound name no group references is written to no file. *)
C13_TypesAndFunctionsReachOutputImportsIfReferenced ==
  /\ OnlyImportsTypesFunctionsOnDisk
  /\ WrittenImports \subseteq {OriginalImports[j] : j \in 1..Len(OriginalImports)}
  /\ \A j \in 1..Len(OriginalImports) :
       (\A k \in 1..Len(calls) : BoundName(OriginalImports[j]) \notin ReferencedNames(k))
         => OriginalImports[j] \notin WrittenImports
  /\ RunSucceeded =>
       /\ WrittenTypes = SelectSeq(SourceWithoutVarConst, LAMBDA d : d.kind = "type")
       /\ CallFunctions = SelectSeq(SourceWithoutVarConst, LAMBDA d : d.kind = "func")

C13_Witness ==
  /\ RunSucceeded
  /\ Len(calls) >= 2
  /\ \E j \in 1..Len(decls) : decls[j].kind = "var"
  /\ \E j \in 1..Len(decls) : decls[j].kind = "const"
  /\ Len(OriginalTypes) >= 1
  /\ \A k \in 1..Len(calls) : calls[k].filename \in OutputFiles
  /\ \E j \in 1..Len(OriginalImports) :
       /\ BoundName(OriginalImports[j]) = "filepath"
       /\ OriginalImports[j] \notin WrittenImports
=============================================================================
